---- MODULE Spec2Model ----
(***************************************************************************)
(* Connection lifecycle manager of the WhatsApp service                    *)
(* (services/whatsapp-integrated.ts, routes/whatsapp.ts).                  *)
(*                                                                         *)
(* The service is single threaded: a handler runs without interruption     *)
(* from one await that waits for I/O to the next.  Every action below is   *)
(* one such run.  A handler suspended at an await is a pending task; the   *)
(* tasks complete in any order.  An await of cleanupSocket() only yields   *)
(* to the microtask queue and is part of the run that contains it.         *)
(*                                                                         *)
(* Time: Date.now() is the constant Now; the passing of time moves the     *)
(* stored timestamps into the past instead (the code only ever reads their *)
(* age).  An armed timer may fire at any moment before the clock moves.    *)
(***************************************************************************)
EXTENDS Integers, Sequences, FiniteSets, Bags, TLC

----------------------------------------------------------------------------
(* Bounds of the model *)

QrPayloads == {"qrA", "qrB"}
TickSteps == {300000}   \* milliseconds that pass in one step of the clock

MessageIds == {"m1", "m2"}
\* The inbound messages: key id (NULL: none), fromMe, remoteJid.
Messages ==
  {[id |-> "m1", fromMe |-> FALSE, remoteJid |-> "chat"],
   [id |-> "m2", fromMe |-> TRUE, remoteJid |-> "chat"],
   [id |-> "m1", fromMe |-> FALSE, remoteJid |-> "status@broadcast"],
   [id |-> "null", fromMe |-> FALSE, remoteJid |-> "chat"]}
UpsertTypes == {"notify", "append", "prepend"}
MaxBatch == 2        \* messages in one messages.upsert event
MaxHandlers == 2     \* messages.upsert handlers suspended at an await
MaxDeliveries == 2   \* deliveries of one message id

MinKeys == 4990      \* ids 1 .. MinKeys are in a dedup cache that is not empty
MaxKey == 5100       \* message ids 1 .. MaxKey are added to the dedup cache
MaxCalls == 2        \* store calls of the system state service in flight
MaxTasks == 2        \* handlers suspended at an await, all kinds together
MaxOrphans == 1      \* live sockets that whatsappSocket no longer references
QrDepth == 2         \* qrRetryCount explored below the ceiling
AttemptDepth == 2    \* reconnectAttempts explored below the ceiling

----------------------------------------------------------------------------
(* Program constants *)

MAX_QR_RETRIES == 30
MIN_RECONNECT_DELAY == 30000
MIN_QR_RECONNECT_DELAY == 2000
MIN_QR_REGENERATION_DELAY == 120000
MAX_RECONNECT_ATTEMPTS == 10
RECONNECT_BACKOFF_BASE == 5000
maxDelay == 60000
MAX_PROCESSED_CACHE == 5000
EVICTED_ENTRIES == 1000
GET_ALL_LIMIT == 200
QR_EXPIRY_DELAY == 65000
RECENTLY_CONNECTED_WINDOW == 300000
OFFLINE_THRESHOLD == 120
RESTART_AFTER_PAIRING_DELAY == 3000
QUICK_RECONNECT_DELAY == 5000
QR_TIMEOUT_FLOOR == 3000
QR_TIMEOUT_SPAN == 60000

\* DisconnectReason of the transport library, by status code
loggedOut == 401
restartRequired == 515
connectionClosed == 428
connectionLost == 408
badSession == 500

StatusCodes == {loggedOut, restartRequired, connectionClosed, connectionLost, badSession}

\* Date.now().  Only differences to it are ever read.
Now == 1000000

NULL == "null"
NoSocket == [conn |-> NULL, user |-> NULL]
NoTimer == [delay |-> -1]

Min(a, b) == IF a < b THEN a ELSE b
Max(a, b) == IF a > b THEN a ELSE b

RECURSIVE Pow(_, _)
Pow(b, n) == IF n = 0 THEN 1 ELSE b * Pow(b, n - 1)

----------------------------------------------------------------------------
VARIABLES
  connectionPhase, seamlessQrRegeneration, whatsappSocket, authState,
  lastQrTime, qrRetryCount, lastConnectionAttempt, connectionHealthy,
  lastSuccessfulConnection, reconnectAttempts, scheduledReconnect,
  qrExpiryTimeout, whatsappState, credentialStore, orphans, tasks,
  processedMessageIds, messagesProcessed, messageStore, upserts,
  storeCalls, delivered, reconnectsScheduled, systemState, uncaught

vars == << connectionPhase, seamlessQrRegeneration, whatsappSocket, authState,
           lastQrTime, qrRetryCount, lastConnectionAttempt, connectionHealthy,
           lastSuccessfulConnection, reconnectAttempts, scheduledReconnect,
           qrExpiryTimeout, whatsappState, credentialStore, orphans, tasks,
           processedMessageIds, messagesProcessed, messageStore, upserts,
           storeCalls, delivered, reconnectsScheduled, systemState, uncaught >>

\* The program state as one record, so that a handler is a function on it.
G == [connectionPhase |-> connectionPhase,
      seamlessQrRegeneration |-> seamlessQrRegeneration,
      whatsappSocket |-> whatsappSocket,
      authState |-> authState,
      lastQrTime |-> lastQrTime,
      qrRetryCount |-> qrRetryCount,
      lastConnectionAttempt |-> lastConnectionAttempt,
      connectionHealthy |-> connectionHealthy,
      lastSuccessfulConnection |-> lastSuccessfulConnection,
      reconnectAttempts |-> reconnectAttempts,
      scheduledReconnect |-> scheduledReconnect,
      qrExpiryTimeout |-> qrExpiryTimeout,
      whatsappState |-> whatsappState,
      credentialStore |-> credentialStore,
      orphans |-> orphans,
      tasks |-> tasks,
      processedMessageIds |-> processedMessageIds,
      messagesProcessed |-> messagesProcessed,
      messageStore |-> messageStore,
      upserts |-> upserts,
      storeCalls |-> storeCalls,
      delivered |-> delivered,
      reconnectsScheduled |-> reconnectsScheduled,
      systemState |-> systemState,
      uncaught |-> uncaught]

Commit(s) ==
  /\ connectionPhase' = s.connectionPhase
  /\ seamlessQrRegeneration' = s.seamlessQrRegeneration
  /\ whatsappSocket' = s.whatsappSocket
  /\ authState' = s.authState
  /\ lastQrTime' = s.lastQrTime
  /\ qrRetryCount' = s.qrRetryCount
  /\ lastConnectionAttempt' = s.lastConnectionAttempt
  /\ connectionHealthy' = s.connectionHealthy
  /\ lastSuccessfulConnection' = s.lastSuccessfulConnection
  /\ reconnectAttempts' = s.reconnectAttempts
  /\ scheduledReconnect' = s.scheduledReconnect
  /\ qrExpiryTimeout' = s.qrExpiryTimeout
  /\ whatsappState' = s.whatsappState
  /\ credentialStore' = s.credentialStore
  /\ orphans' = s.orphans
  /\ tasks' = s.tasks
  /\ processedMessageIds' = s.processedMessageIds
  /\ messagesProcessed' = s.messagesProcessed
  /\ messageStore' = s.messageStore
  /\ upserts' = s.upserts
  /\ storeCalls' = s.storeCalls
  /\ delivered' = s.delivered
  /\ reconnectsScheduled' = s.reconnectsScheduled
  /\ systemState' = s.systemState
  /\ uncaught' = s.uncaught

\* tasks is the bag of suspended handlers, each <<await site, local value>>.
Task(k) == << k, "" >>
Encode(qr) == << "encode", qr >>

Spawn(s, task) == [s EXCEPT !.tasks = @ (+) SetToBag({task})]
Finish(s, task) == [s EXCEPT !.tasks = @ (-) SetToBag({task})]

----------------------------------------------------------------------------
(* routes/whatsapp.ts: the published connection state *)

InitialWhatsAppState ==
  [status |-> "disconnected", qrCode |-> NULL, user |-> NULL, error |-> NULL,
   messagesProcessed |-> 0]

updateWhatsAppState(s, updates) ==
  [s EXCEPT !.whatsappState =
     [k \in DOMAIN @ |-> IF k \in DOMAIN updates THEN updates[k] ELSE @[k]]]

----------------------------------------------------------------------------
(* services/whatsapp-integrated.ts: helpers *)

QRCodeToDataURL(qr) == "data:image/png;" \o qr

\* Mutant of getReconnectDelay: the delay is not capped.
getReconnectDelayUncapped(s) ==
  (RECONNECT_BACKOFF_BASE * Pow(3, s.reconnectAttempts)) \div Pow(2, s.reconnectAttempts)

\* min(5000 * 1.5^reconnectAttempts, maxDelay), in whole milliseconds: the
\* code computes in floating point, setTimeout truncates the delay.
getReconnectDelay(s) ==
  Min((RECONNECT_BACKOFF_BASE * Pow(3, s.reconnectAttempts))
        \div Pow(2, s.reconnectAttempts), maxDelay)

clearScheduledReconnect(s) == [s EXCEPT !.scheduledReconnect = NoTimer]

clearQrExpiryTimeout(s) == [s EXCEPT !.qrExpiryTimeout = NoTimer]

\* Listeners removed and the socket ended: the session is gone.
cleanupSocket(s) == [s EXCEPT !.whatsappSocket = NoSocket]

scheduleReconnect(s, delay) ==
  LET s1 == clearScheduledReconnect(s) IN
  IF s1.reconnectAttempts >= MAX_RECONNECT_ATTEMPTS
  THEN updateWhatsAppState(
         [s1 EXCEPT !.reconnectAttempts = 0, !.connectionPhase = "idle"],
         [status |-> "disconnected",
          error |-> "Maximum reconnection attempts reached"])
  ELSE [s1 EXCEPT !.connectionPhase = "reconnecting",
                  !.scheduledReconnect = [delay |-> delay],
                  !.reconnectsScheduled = @ + 1]

\* Mutant of startWhatsApp: a call while starting is not turned away.
startWhileStarting(s, force) ==
  LET isQrPhase == s.whatsappState.status = "qr_ready" \/ s.connectionPhase = "qr_ready"
      minDelay == IF isQrPhase THEN MIN_QR_RECONNECT_DELAY ELSE MIN_RECONNECT_DELAY
  IN
  IF ~force /\ s.lastConnectionAttempt # 0 /\ (Now - s.lastConnectionAttempt) < minDelay
  THEN s
  ELSE
    LET s1 == IF s.connectionPhase = "starting" THEN cleanupSocket(s) ELSE s IN
    IF s.whatsappState.status = "connected" /\ ~force
    THEN s1
    ELSE
      LET s2 == IF force
                THEN [clearQrExpiryTimeout(clearScheduledReconnect(s1))
                        EXCEPT !.qrRetryCount = 0,
                               !.reconnectAttempts = 0,
                               !.seamlessQrRegeneration = FALSE]
                ELSE s1
          s3 == [cleanupSocket(s2) EXCEPT !.connectionPhase = "starting",
                                          !.lastConnectionAttempt = Now]
          s4 == IF ~s3.seamlessQrRegeneration
                THEN updateWhatsAppState(s3, [status |-> "initializing", error |-> NULL])
                ELSE s3
      IN Spawn(s4, Task("auth"))

\* startWhatsApp with the throttle applied to forced calls too.
startThrottlesForce(s, force) ==
  LET isQrPhase == s.whatsappState.status = "qr_ready" \/ s.connectionPhase = "qr_ready"
      minDelay == IF isQrPhase THEN MIN_QR_RECONNECT_DELAY ELSE MIN_RECONNECT_DELAY
  IN
  IF s.lastConnectionAttempt # 0 /\ (Now - s.lastConnectionAttempt) < minDelay
  THEN s
  ELSE IF s.connectionPhase = "starting" /\ ~force
  THEN s
  ELSE
    LET s1 == IF s.connectionPhase = "starting" THEN cleanupSocket(s) ELSE s IN
    IF s.whatsappState.status = "connected" /\ ~force
    THEN s1
    ELSE
      LET s2 == IF force
                THEN [clearQrExpiryTimeout(clearScheduledReconnect(s1))
                        EXCEPT !.qrRetryCount = 0,
                               !.reconnectAttempts = 0,
                               !.seamlessQrRegeneration = FALSE]
                ELSE s1
          s3 == [cleanupSocket(s2) EXCEPT !.connectionPhase = "starting",
                                          !.lastConnectionAttempt = Now]
          s4 == IF ~s3.seamlessQrRegeneration
                THEN updateWhatsAppState(s3, [status |-> "initializing", error |-> NULL])
                ELSE s3
      IN Spawn(s4, Task("auth"))

\* startWhatsApp up to its first I/O await (the credential load).
startWhatsApp(s, force) ==
  LET isQrPhase == s.whatsappState.status = "qr_ready" \/ s.connectionPhase = "qr_ready"
      minDelay == IF isQrPhase THEN MIN_QR_RECONNECT_DELAY ELSE MIN_RECONNECT_DELAY
  IN
  IF ~force /\ s.lastConnectionAttempt # 0 /\ (Now - s.lastConnectionAttempt) < minDelay
  THEN s
  ELSE IF s.connectionPhase = "starting" /\ ~force
  THEN s
  ELSE
    LET s1 == IF s.connectionPhase = "starting" THEN cleanupSocket(s) ELSE s IN
    IF s.whatsappState.status = "connected" /\ ~force
    THEN s1
    ELSE
      LET s2 == IF force
                THEN [clearQrExpiryTimeout(clearScheduledReconnect(s1))
                        EXCEPT !.qrRetryCount = 0,
                               !.reconnectAttempts = 0,
                               !.seamlessQrRegeneration = FALSE]
                ELSE s1
          s3 == [cleanupSocket(s2) EXCEPT !.connectionPhase = "starting",
                                          !.lastConnectionAttempt = Now]
          s4 == IF ~s3.seamlessQrRegeneration
                THEN updateWhatsAppState(s3, [status |-> "initializing", error |-> NULL])
                ELSE s3
      IN Spawn(s4, Task("auth"))

----------------------------------------------------------------------------
(* startWhatsApp after the credential load and after the version fetch *)

\* useFirestoreAuthState: creds are read from the store or created fresh.
useFirestoreAuthState(s) ==
  IF "creds" \in s.credentialStore THEN "stored" ELSE "fresh"

startAuthLoaded(s) ==
  Spawn([Finish(s, Task("auth")) EXCEPT !.authState = useFirestoreAuthState(s)],
        Task("version"))

\* readData('creds') caught an error of the store and returned null: the
\* creds are initialised anew (initAuthCreds).
startAuthReadFailed(s) ==
  Spawn([Finish(s, Task("auth")) EXCEPT !.authState = "fresh"], Task("version"))

\* The catch block of startWhatsApp without its updateWhatsAppState call.
startFailedSilent(s, k) ==
  [Finish(s, Task(k)) EXCEPT !.connectionPhase = "idle"]

\* The catch block of startWhatsApp.
startFailed(s, k) ==
  updateWhatsAppState([Finish(s, Task(k)) EXCEPT !.connectionPhase = "idle"],
                      [status |-> "error", error |-> "start failed"])

\* makeWASocket: the new session replaces whatever whatsappSocket referenced.
makeWASocket(s) ==
  [s EXCEPT !.whatsappSocket =
              [conn |-> "connecting",
               user |-> IF s.authState = "stored" THEN "me" ELSE NULL],
            !.orphans = IF s.whatsappSocket.conn \in {"connecting", "open"}
                        THEN Append(@, s.whatsappSocket) ELSE @]

startOpenSocket(s) ==
  LET s1 == Finish(s, Task("version"))
      s2 == IF ~s1.seamlessQrRegeneration
            THEN updateWhatsAppState(s1, [status |-> "initializing"])
            ELSE s1
  IN makeWASocket([s2 EXCEPT !.seamlessQrRegeneration = FALSE])

----------------------------------------------------------------------------
(* connection.update handler *)

\* Mutant of onQr: the spacing of the challenges is not checked.
onQrUnspaced(s, qr) ==
  IF s.qrRetryCount >= MAX_QR_RETRIES
  THEN updateWhatsAppState([s EXCEPT !.connectionPhase = "idle"],
         [status |-> "error",
          error |-> "QR code expired. Please try connecting again.",
          qrCode |-> NULL])
  ELSE Spawn([s EXCEPT !.qrRetryCount = @ + 1,
                       !.lastQrTime = Now,
                       !.connectionPhase = "qr_ready"], Encode(qr))

\* Mutant of onQr: the ceiling is checked one challenge late.
onQrLateCeiling(s, qr) ==
  IF s.lastQrTime # 0 /\ (Now - s.lastQrTime) < MIN_QR_REGENERATION_DELAY
     /\ s.qrRetryCount > 0
  THEN s
  ELSE IF s.qrRetryCount > MAX_QR_RETRIES
  THEN updateWhatsAppState([s EXCEPT !.connectionPhase = "idle"],
         [status |-> "error",
          error |-> "QR code expired. Please try connecting again.",
          qrCode |-> NULL])
  ELSE Spawn([s EXCEPT !.qrRetryCount = @ + 1,
                       !.lastQrTime = Now,
                       !.connectionPhase = "qr_ready"], Encode(qr))

\* qr: up to the await of QRCode.toDataURL
onQr(s, qr) ==
  IF s.lastQrTime # 0 /\ (Now - s.lastQrTime) < MIN_QR_REGENERATION_DELAY
     /\ s.qrRetryCount > 0
  THEN s
  ELSE IF s.qrRetryCount >= MAX_QR_RETRIES
  THEN updateWhatsAppState([s EXCEPT !.connectionPhase = "idle"],
         [status |-> "error",
          error |-> "QR code expired. Please try connecting again.",
          qrCode |-> NULL])
  ELSE Spawn([s EXCEPT !.qrRetryCount = @ + 1,
                       !.lastQrTime = Now,
                       !.connectionPhase = "qr_ready"], Encode(qr))

\* qr: after QRCode.toDataURL resolved
onQrEncoded(s, qr) ==
  LET s1 == updateWhatsAppState(Finish(s, Encode(qr)),
              [status |-> "qr_ready", qrCode |-> QRCodeToDataURL(qr), error |-> NULL])
  IN [clearQrExpiryTimeout(s1) EXCEPT
        !.qrExpiryTimeout = [delay |-> QR_EXPIRY_DELAY]]

\* qr: QRCode.toDataURL rejected, the catch logs it
onQrEncodeFailed(s, qr) == Finish(s, Encode(qr))

onConnecting(s) ==
  updateWhatsAppState(
    clearQrExpiryTimeout([s EXCEPT !.connectionPhase = "authenticating"]),
    [status |-> "connecting"])

\* Mutant of onOpen: reconnectAttempts is not reset.
onOpenKeepsAttempts(s) ==
  LET user == s.whatsappSocket.user
      s1 == [s EXCEPT !.connectionPhase = "connected",
                      !.qrRetryCount = 0,
                      !.lastQrTime = 0,
                      !.connectionHealthy = TRUE,
                      !.lastSuccessfulConnection = Now,
                      !.reconnectsScheduled = 0]
  IN updateWhatsAppState(clearQrExpiryTimeout(clearScheduledReconnect(s1)),
       [status |-> "connected", qrCode |-> NULL,
        user |-> IF user = NULL THEN "Unknown" ELSE user,
        messagesProcessed |-> 0, error |-> NULL])

onOpen(s) ==
  LET user == s.whatsappSocket.user
      s1 == [s EXCEPT !.connectionPhase = "connected",
                      !.qrRetryCount = 0,
                      !.lastQrTime = 0,
                      !.connectionHealthy = TRUE,
                      !.lastSuccessfulConnection = Now,
                      !.reconnectAttempts = 0,
                      !.reconnectsScheduled = 0]
  IN updateWhatsAppState(clearQrExpiryTimeout(clearScheduledReconnect(s1)),
       [status |-> "connected", qrCode |-> NULL,
        user |-> IF user = NULL THEN "Unknown" ELSE user,
        messagesProcessed |-> 0, error |-> NULL])

\* close, logged out: after authState.clearSession()
loggedOutReset(s) ==
  LET s1 == [s EXCEPT !.connectionPhase = "idle",
                      !.qrRetryCount = 0,
                      !.lastQrTime = 0,
                      !.connectionHealthy = FALSE,
                      !.reconnectAttempts = 0]
  IN updateWhatsAppState(clearQrExpiryTimeout(clearScheduledReconnect(s1)),
       [status |-> "disconnected", user |-> NULL, qrCode |-> NULL,
        error |-> "Logged out from WhatsApp"])

\* saveCreds -> writeData('creds'): the document is set; an error is caught
\* and logged.
writeData(s, ok) == IF ok THEN [s EXCEPT !.credentialStore = @ \cup {"creds"}] ELSE s

\* clearSession: the session's documents are queried, then deleted in one
\* batch; an error of either call is caught and logged.
clearSessionQueried(s) ==
  Spawn(Finish(s, Task("clear")),
        << "commit", IF "creds" \in s.credentialStore THEN "creds" ELSE "" >>)

clearSessionCommitted(s, snapshot) ==
  [Finish(s, << "commit", snapshot >>) EXCEPT !.credentialStore = @ \ {snapshot}]

onLoggedOutCleared(s, snapshot) == loggedOutReset(clearSessionCommitted(s, snapshot))

\* close, logged out: clearSession caught an error of the store
onLoggedOutClearFailed(s, task) == loggedOutReset(Finish(s, task))

\* close in pairing phase: restart at once through setImmediate
immediateRestart(s) ==
  Spawn([s EXCEPT !.seamlessQrRegeneration = TRUE, !.reconnectAttempts = 0],
        Task("immediate"))

onClose(s, statusCode) ==
  LET shouldReconnect == statusCode # loggedOut
      inQrPhase == s.whatsappState.status = "qr_ready" \/ s.connectionPhase = "qr_ready"
      timeSinceLastQr == Now - s.lastQrTime
  IN
  IF statusCode = loggedOut
  THEN IF s.authState # NULL THEN Spawn(s, Task("clear")) ELSE loggedOutReset(s)
  ELSE IF statusCode = restartRequired
  THEN IF inQrPhase
       THEN immediateRestart(s)
       ELSE scheduleReconnect(
              [updateWhatsAppState([s EXCEPT !.connectionHealthy = FALSE],
                                   [status |-> "connecting"])
                 EXCEPT !.reconnectAttempts = 0],
              RESTART_AFTER_PAIRING_DELAY)
  ELSE IF statusCode = 428
  THEN IF inQrPhase
       THEN immediateRestart(s)
       ELSE IF s.qrRetryCount < MAX_QR_RETRIES
       THEN scheduleReconnect(
              updateWhatsAppState([s EXCEPT !.connectionHealthy = FALSE],
                                  [status |-> "qr_ready"]),
              Max(QR_TIMEOUT_FLOOR, QR_TIMEOUT_SPAN - timeSinceLastQr))
       ELSE [updateWhatsAppState(
               [s EXCEPT !.connectionHealthy = FALSE, !.connectionPhase = "idle"],
               [status |-> "disconnected", qrCode |-> NULL,
                error |-> "QR code expired too many times. Please click Connect to try again."])
               EXCEPT !.qrRetryCount = 0, !.reconnectAttempts = 0]
  ELSE IF statusCode = connectionClosed \/ statusCode = connectionLost
  THEN IF inQrPhase
       THEN immediateRestart(s)
       ELSE IF s.connectionPhase = "authenticating"
       THEN scheduleReconnect(
              updateWhatsAppState([s EXCEPT !.connectionHealthy = FALSE],
                                  [status |-> "authenticating"]),
              MIN_RECONNECT_DELAY)
       ELSE IF shouldReconnect
       THEN LET wasRecentlyConnected ==
                  s.lastSuccessfulConnection # 0
                  /\ (Now - s.lastSuccessfulConnection) < RECENTLY_CONNECTED_WINDOW
                s1 == updateWhatsAppState([s EXCEPT !.connectionHealthy = FALSE],
                                          [status |-> "connecting"])
            IN IF wasRecentlyConnected
               THEN scheduleReconnect(s1, QUICK_RECONNECT_DELAY)
               ELSE scheduleReconnect(s1, getReconnectDelay(s1))
       ELSE s
  ELSE IF shouldReconnect
  THEN IF inQrPhase
       THEN immediateRestart(s)
       ELSE LET s1 == updateWhatsAppState([s EXCEPT !.connectionHealthy = FALSE],
                                          [status |-> "connecting"])
            IN scheduleReconnect(s1, getReconnectDelay(s1))
  ELSE updateWhatsAppState(loggedOutReset(s), [error |-> "Unknown error"])

----------------------------------------------------------------------------
(* timer callbacks *)

scheduledReconnectCallback(s) ==
  LET s1 == [s EXCEPT !.scheduledReconnect = NoTimer] IN
  IF s1.whatsappState.status # "connected"
  THEN startWhatsApp([s1 EXCEPT !.reconnectAttempts = @ + 1], FALSE)
  ELSE s1

qrExpiryCallback(s) ==
  LET s1 == [s EXCEPT !.qrExpiryTimeout = NoTimer] IN
  IF s1.whatsappState.status = "qr_ready" /\ s1.connectionPhase = "qr_ready"
  THEN LET s2 == cleanupSocket(s1) IN
       IF s2.qrRetryCount < MAX_QR_RETRIES
       THEN startWhatsApp([s2 EXCEPT !.connectionPhase = "idle"], FALSE)
       ELSE updateWhatsAppState([s2 EXCEPT !.connectionPhase = "idle"],
              [status |-> "disconnected", qrCode |-> NULL,
               error |-> "QR code expired. Please click Connect to try again."])
  ELSE s1

immediateCallback(s) == startWhatsApp(Finish(s, Task("immediate")), FALSE)

----------------------------------------------------------------------------
(* stopWhatsApp *)

\* Mutant of stopWhatsApp: the QR expiry timer is left armed.
stopKeepsQrExpiry(s) ==
  LET s1 == cleanupSocket(clearScheduledReconnect(s))
      s2 == [s1 EXCEPT !.connectionPhase = "idle",
                       !.connectionHealthy = FALSE,
                       !.reconnectAttempts = 0,
                       !.qrRetryCount = 0,
                       !.lastQrTime = 0]
  IN updateWhatsAppState(s2,
       [status |-> "disconnected", qrCode |-> NULL, user |-> NULL, error |-> NULL])

\* Mutant of stopWhatsApp: the stored credentials are deleted as well.
stopClearsSession(s) ==
  LET s1 == cleanupSocket(clearQrExpiryTimeout(clearScheduledReconnect(s)))
      s2 == [s1 EXCEPT !.connectionPhase = "idle",
                       !.connectionHealthy = FALSE,
                       !.reconnectAttempts = 0,
                       !.qrRetryCount = 0,
                       !.lastQrTime = 0,
                       !.credentialStore = {}]
  IN updateWhatsAppState(s2,
       [status |-> "disconnected", qrCode |-> NULL, user |-> NULL, error |-> NULL])

stopWhatsApp(s) ==
  LET s1 == cleanupSocket(clearQrExpiryTimeout(clearScheduledReconnect(s)))
      s2 == [s1 EXCEPT !.connectionPhase = "idle",
                       !.connectionHealthy = FALSE,
                       !.reconnectAttempts = 0,
                       !.qrRetryCount = 0,
                       !.lastQrTime = 0]
  IN updateWhatsAppState(s2,
       [status |-> "disconnected", qrCode |-> NULL, user |-> NULL, error |-> NULL])

\* logoutWhatsApp: the state reset and the published state at its end.
logoutReset(s) ==
  updateWhatsAppState(
    [s EXCEPT !.connectionPhase = "idle",
              !.connectionHealthy = FALSE,
              !.reconnectAttempts = 0,
              !.qrRetryCount = 0,
              !.lastQrTime = 0,
              !.lastSuccessfulConnection = 0],
    [status |-> "disconnected", qrCode |-> NULL, user |-> NULL, error |-> NULL])

\* logoutWhatsApp from `if (authState)` on, up to the await of clearSession.
logoutClearSession(s) ==
  IF s.authState # NULL THEN Spawn(s, Task("logoutClear")) ELSE logoutReset(s)

\* logoutWhatsApp up to its first await: whatsappSocket.logout() when a
\* socket is referenced.
logoutWhatsApp(s) ==
  LET s1 == clearQrExpiryTimeout(clearScheduledReconnect(s)) IN
  IF s1.whatsappSocket # NoSocket
  THEN Spawn(s1, Task("logout"))
  ELSE logoutClearSession(s1)

\* whatsappSocket.logout() resolved or threw: the listeners are removed and
\* the reference is dropped.
logoutSocketReleased(s) ==
  logoutClearSession([Finish(s, Task("logout")) EXCEPT !.whatsappSocket = NoSocket])

\* clearSession of logoutWhatsApp: the query, then the batch delete.
logoutQueried(s) ==
  Spawn(Finish(s, Task("logoutClear")),
        << "logoutCommit", IF "creds" \in s.credentialStore THEN "creds" ELSE "" >>)

logoutCommitted(s, snapshot) ==
  logoutReset([Finish(s, << "logoutCommit", snapshot >>)
                 EXCEPT !.credentialStore = @ \ {snapshot}])

\* clearSession caught an error of the store.
logoutClearFailed(s, task) == logoutReset(Finish(s, task))

----------------------------------------------------------------------------
(* messages.upsert handler *)

Range(q) == {q[i] : i \in 1 .. Len(q)}

\* Mutant of has: the in-memory check never finds the key.
hasNoEntry(cache, messageKey) == FALSE

\* processedMessageIds is a Set in insertion order.
has(cache, messageKey) == messageKey \in Range(cache)

\* addToProcessedCache with `>` for `>=` in the size test.
addToProcessedCacheLate(s, messageKey) ==
  LET kept == IF Len(s.processedMessageIds) > MAX_PROCESSED_CACHE
              THEN SubSeq(s.processedMessageIds, EVICTED_ENTRIES + 1,
                          Len(s.processedMessageIds))
              ELSE s.processedMessageIds
  IN [s EXCEPT !.processedMessageIds =
        IF has(kept, messageKey) THEN kept ELSE Append(kept, messageKey)]

addToProcessedCache(s, messageKey) ==
  LET kept == IF Len(s.processedMessageIds) >= MAX_PROCESSED_CACHE
              THEN SubSeq(s.processedMessageIds, EVICTED_ENTRIES + 1,
                          Len(s.processedMessageIds))
              ELSE s.processedMessageIds
  IN [s EXCEPT !.processedMessageIds =
        IF has(kept, messageKey) THEN kept ELSE Append(kept, messageKey)]

\* hybridMessageStore.getAll({ limit: 200 }): the newest rows
getAll(rows, limit) ==
  IF Len(rows) <= limit THEN rows ELSE SubSeq(rows, Len(rows) - limit + 1, Len(rows))

\* A handler suspended at await site pc, msgs the messages from the current on.
Frame(pc, msgs) == [pc |-> pc, msgs |-> msgs]

\* The for loop from message msgs[1] on, up to the next await.
RECURSIVE upsertLoop(_, _)
upsertLoop(s, msgs) ==
  IF msgs = << >> THEN s
  ELSE LET msg == Head(msgs) IN
       IF msg.remoteJid = "status@broadcast" THEN upsertLoop(s, Tail(msgs))
       ELSE IF msg.id = NULL THEN upsertLoop(s, Tail(msgs))
       ELSE IF has(s.processedMessageIds, msg.id) THEN upsertLoop(s, Tail(msgs))
       ELSE [s EXCEPT !.upserts = @ (+) SetToBag({Frame("getAll", msgs)})]

onMessagesUpsert(s, type, msgs) ==
  IF type # "notify" /\ type # "append" THEN s ELSE upsertLoop(s, msgs)

\* onGetAllResolved without the scan of the persisted messages.
onGetAllResolvedNoScan(s, msgs) ==
  LET msg == Head(msgs)
      s1 == [s EXCEPT !.upserts = @ (-) SetToBag({Frame("getAll", msgs)})]
      s2 == addToProcessedCache(s1, msg.id)
      s3 == updateWhatsAppState(
              [s2 EXCEPT !.messagesProcessed = @ + 1],
              [messagesProcessed |-> s2.messagesProcessed + 1])
  IN [s3 EXCEPT !.storeCalls[msg.id] = @ + 1,
                !.upserts = @ (+) SetToBag({Frame("store", msgs)})]

\* getAll resolved: the database check, the mark, the count, then the store call
onGetAllResolved(s, msgs) ==
  LET msg == Head(msgs)
      s1 == [s EXCEPT !.upserts = @ (-) SetToBag({Frame("getAll", msgs)})]
      isDuplicate ==
        \E i \in DOMAIN getAll(s1.messageStore, GET_ALL_LIMIT) :
           getAll(s1.messageStore, GET_ALL_LIMIT)[i].messageKey = msg.id
  IN IF isDuplicate
     THEN upsertLoop(addToProcessedCache(s1, msg.id), Tail(msgs))
     ELSE LET s2 == addToProcessedCache(s1, msg.id)
              s3 == updateWhatsAppState(
                      [s2 EXCEPT !.messagesProcessed = @ + 1],
                      [messagesProcessed |-> s2.messagesProcessed + 1])
          IN [s3 EXCEPT !.storeCalls[msg.id] = @ + 1,
                        !.upserts = @ (+) SetToBag({Frame("store", msgs)})]

\* getAll rejected: the await is in no try block, the promise of the handler
\* rejects and the rest of the batch is dropped
onGetAllRejected(s, msgs) ==
  [s EXCEPT !.upserts = @ (-) SetToBag({Frame("getAll", msgs)}),
            !.uncaught = @ \cup {"messages.upsert"}]

\* storeMessage / storeOwnMessage returned; ok: the row was added
onStoreReturned(s, msgs, ok) ==
  LET msg == Head(msgs)
      s1 == [s EXCEPT !.upserts = @ (-) SetToBag({Frame("store", msgs)})]
      s2 == IF ok
            THEN [s1 EXCEPT !.messageStore =
                    Append(@, [messageKey |-> msg.id,
                               sender |-> IF msg.fromMe THEN "Me" ELSE "them"])]
            ELSE s1
  IN upsertLoop(s2, Tail(msgs))

----------------------------------------------------------------------------
(* The transport: the sockets that still deliver events.  Emitter 0 is the *)
(* socket whatsappSocket references, emitter i > 0 the i-th orphan.  A     *)
(* socket that has emitted close delivers nothing more.                    *)

Emitters(s) ==
  (IF s.whatsappSocket.conn \in {"connecting", "open"} THEN {0} ELSE {})
  \cup (1 .. Len(s.orphans))

ConnOf(s, e) == IF e = 0 THEN s.whatsappSocket.conn ELSE s.orphans[e].conn

\* The identity the socket logs in with: NULL while its credentials are not
\* registered, and then the server answers with pairing challenges.
UserOf(s, e) == IF e = 0 THEN s.whatsappSocket.user ELSE s.orphans[e].user

RemoveAt(q, i) == [j \in 1 .. (Len(q) - 1) |-> IF j < i THEN q[j] ELSE q[j + 1]]

SetConn(s, e, c) ==
  IF e = 0 THEN [s EXCEPT !.whatsappSocket.conn = c]
  ELSE IF c = "closed" THEN [s EXCEPT !.orphans = RemoveAt(@, e)]
  ELSE [s EXCEPT !.orphans[e].conn = c]

\* The sessions that are open: handlers attached, not ended.
LiveSessions(s) == Cardinality(Emitters(s))


----------------------------------------------------------------------------
(* services/system-state.ts: SystemStateService *)

\* The persisted record: lastActive is the age of lastActiveTimestamp in
\* milliseconds (-1: the field is missing); lastShutdownTimestamp is NULL, a
\* copy of the previous lastActive, or the time of shutdown().
NoRecord ==
  [exists |-> FALSE, lastActive |-> -1, isOnline |-> FALSE, lastShutdownTimestamp |-> NULL]

\* The records an earlier run of the process may have left.
PriorRecords ==
  {NoRecord}
    \cup {[exists |-> TRUE, lastActive |-> age, isOnline |-> TRUE,
            lastShutdownTimestamp |-> NULL] : age \in {-1, 0, 120999, 121000, 600000}}

\* What a call of initialize returned, with what its get had found.
NoResult ==
  [returned |-> FALSE, wasOffline |-> FALSE, offlineDuration |-> 0,
   read |-> NoRecord, readFailed |-> FALSE]

\* The service: its fields (heartbeatInterval: a timer handle is held;
\* currentState with exists = FALSE for null; userId), the flag
\* systemStateInitialized of the open handler, the interval timers that are
\* live, the stored record (known once it was read or written), the store
\* calls in flight, what the last initialize returned, whether shutdown has
\* returned since, an error that reached a caller, a heartbeat error that was
\* logged.
NoSystemState ==
  [heartbeatInterval |-> FALSE, currentState |-> NoRecord, userId |-> NULL,
   systemStateInitialized |-> FALSE, timers |-> 0,
   record |-> NoRecord, known |-> FALSE, calls |-> {}, result |-> NoResult,
   stopped |-> FALSE, rejected |-> FALSE, logged |-> FALSE]

\* saveState: docRef.set with the fields of currentState, in flight.
saveState(t, by, result) ==
  [t EXCEPT !.calls = @ \cup {[op |-> "set", by |-> by, data |-> t.currentState,
                                result |-> result]}]

\* startHeartbeat: clears the interval it holds and sets a new one.
startHeartbeat(t) ==
  [t EXCEPT !.timers = (IF t.heartbeatInterval THEN @ - 1 ELSE @) + 1,
            !.heartbeatInterval = TRUE]

\* initialize up to `await docRef.get()`.
initialize(t, userId) ==
  [t EXCEPT !.userId = IF userId = NULL THEN "default" ELSE userId,
            !.calls = @ \cup {[op |-> "get", by |-> "initialize", data |-> NoRecord,
                                result |-> NoResult]},
            !.result = NoResult, !.stopped = FALSE]

\* initialize after the get: found is the stored record; the read may fail.
initializeRead(t, call, ok, found) ==
  LET t1 == [t EXCEPT !.calls = @ \ {call}] IN
  IF ~ok
  THEN [t1 EXCEPT !.result = [NoResult EXCEPT !.returned = TRUE, !.readFailed = TRUE]]
  ELSE
    LET lastActive == found.exists /\ found.lastActive >= 0
        offlineDuration == IF lastActive THEN found.lastActive \div 1000 ELSE 0
        now == [exists |-> TRUE, lastActive |-> 0, isOnline |-> TRUE,
                lastShutdownTimestamp |-> IF lastActive THEN "lastActive" ELSE NULL]
    IN saveState([t1 EXCEPT !.currentState = now, !.record = found, !.known = TRUE],
                 "initialize",
                 [returned |-> TRUE, wasOffline |-> offlineDuration > OFFLINE_THRESHOLD,
                  offlineDuration |-> offlineDuration, read |-> found,
                  readFailed |-> FALSE])

\* saveSettled with updateLastActive's try/catch taken away: the rejection of
\* the write leaves the interval callback.
saveSettledUncaught(t, call, ok) ==
  LET t1 == [t EXCEPT !.calls = @ \ {call},
                      !.record = IF ok THEN call.data ELSE @] IN
  CASE call.by = "initialize" ->
         IF ok THEN [startHeartbeat(t1) EXCEPT !.result = call.result]
         ELSE [t1 EXCEPT !.result = [call.result EXCEPT !.wasOffline = FALSE,
                                                        !.offlineDuration = 0]]
    [] call.by = "updateLastActive" -> [t1 EXCEPT !.rejected = @ \/ ~ok]
    [] call.by = "shutdown" -> [t1 EXCEPT !.stopped = ok, !.rejected = @ \/ ~ok]

\* A docRef.set settles.  initialize goes on to startHeartbeat and returns,
\* or its catch returns the defaults; updateLastActive logs an error;
\* shutdown returns or rejects.
saveSettled(t, call, ok) ==
  LET t1 == [t EXCEPT !.calls = @ \ {call},
                      !.record = IF ok THEN call.data ELSE @] IN
  CASE call.by = "initialize" ->
         IF ok THEN [startHeartbeat(t1) EXCEPT !.result = call.result]
         ELSE [t1 EXCEPT !.result = [call.result EXCEPT !.wasOffline = FALSE,
                                                        !.offlineDuration = 0]]
    [] call.by = "updateLastActive" -> [t1 EXCEPT !.logged = @ \/ ~ok]
    [] call.by = "shutdown" -> [t1 EXCEPT !.stopped = ok, !.rejected = @ \/ ~ok]

\* A heartbeat tick: updateLastActive up to `await this.saveState()`.
updateLastActive(t) ==
  IF ~t.currentState.exists THEN t
  ELSE saveState([t EXCEPT !.currentState.lastActive = 0], "updateLastActive", NoResult)

\* shutdown up to `await this.saveState()`.
shutdown(t) ==
  LET t1 == [t EXCEPT !.timers = IF t.heartbeatInterval THEN @ - 1 ELSE @,
                      !.heartbeatInterval = FALSE] IN
  IF t1.currentState.exists
  THEN saveState([t1 EXCEPT !.currentState.isOnline = FALSE,
                            !.currentState.lastShutdownTimestamp = "shutdown"],
                 "shutdown", NoResult)
  ELSE [t1 EXCEPT !.stopped = TRUE]

\* The open branch to its end: liveness tracking is initialised for the
\* phone number of the session, once per process.
onOpenTracked(s) ==
  LET user == s.whatsappSocket.user
      userPhone == IF user = NULL THEN "Unknown" ELSE user
      s1 == onOpen(s)
  IN IF s1.systemState.systemStateInitialized THEN s1
     ELSE [s1 EXCEPT !.systemState =
                       initialize([@ EXCEPT !.systemStateInitialized = TRUE], userPhone)]

\* A step of the service that leads to t, with at most MaxCalls store calls
\* in flight.
ServiceStep(t) ==
  /\ Cardinality(t.calls) <= MaxCalls
  /\ Commit([G EXCEPT !.systemState = t])

\* A live interval timer fires.
HeartbeatTick ==
  /\ systemState.timers > 0
  /\ ServiceStep(updateLastActive(systemState))

\* The store answers a call of the service, or the heartbeat ticks.
ServiceRuns ==
  \/ \E call \in systemState.calls, ok \in BOOLEAN, found \in PriorRecords :
       /\ call.op = "get"
       /\ systemState.known => found = systemState.record
       /\ ServiceStep(initializeRead(systemState, call, ok, found))
  \/ \E call \in systemState.calls, ok \in BOOLEAN :
       /\ call.op = "set"
       /\ ServiceStep(saveSettled(systemState, call, ok))
  \/ HeartbeatTick

NextService ==
  \/ ServiceStep(initialize(systemState, NULL))
  \/ ServiceRuns
  \/ ServiceStep(shutdown(systemState))

----------------------------------------------------------------------------
(* The clock *)

\* The values the code compares the age of a timestamp with.  Ages between
\* two of them are not told apart; the largest is the horizon.
Thresholds(clock) ==
  CASE clock = "lastConnectionAttempt" -> {MIN_QR_RECONNECT_DELAY, MIN_RECONNECT_DELAY}
    [] clock = "lastQrTime" ->
         {QR_TIMEOUT_SPAN - QR_TIMEOUT_FLOOR, QR_EXPIRY_DELAY, MIN_QR_REGENERATION_DELAY}
    [] clock = "lastSuccessfulConnection" -> {RECENTLY_CONNECTED_WINDOW}

\* The largest threshold an age has reached (0: none).
Reached(age, clock) ==
  LET below == {x \in Thresholds(clock) : x <= age} IN
  IF below = {} THEN 0 ELSE CHOOSE x \in below : \A y \in below : y <= x

\* The timestamp t after d more milliseconds; 0 is "never set".
Shift(t, d, clock) == IF t = 0 THEN 0 ELSE Now - Reached(Now - t + d, clock)

advance(s, d) ==
  [s EXCEPT !.lastQrTime = Shift(@, d, "lastQrTime"),
            !.lastConnectionAttempt = Shift(@, d, "lastConnectionAttempt"),
            !.lastSuccessfulConnection = Shift(@, d, "lastSuccessfulConnection")]

\* What is left of a timer's delay after d milliseconds.
Remaining(timer, d) ==
  IF timer = NoTimer THEN NoTimer ELSE [delay |-> Max(timer.delay - d, 0)]

\* d milliseconds pass while timers are armed.
elapse(s, d) ==
  [advance(s, d) EXCEPT !.scheduledReconnect = Remaining(@, d),
                        !.qrExpiryTimeout = Remaining(@, d)]

\* setTimeout: the timer runs its callback before a timer that has more
\* of its delay left.
Due(timer, other) ==
  /\ timer # NoTimer
  /\ other # NoTimer => timer.delay <= other.delay

----------------------------------------------------------------------------
\* The module state when the process has started, cache the ids that
\* processedMessageIds holds.
InitWith(cache) ==
  /\ connectionPhase = "idle"
  /\ seamlessQrRegeneration = FALSE
  /\ whatsappSocket = NoSocket
  /\ authState = NULL
  /\ lastQrTime = 0
  /\ qrRetryCount = 0
  /\ lastConnectionAttempt = 0
  /\ connectionHealthy = FALSE
  /\ lastSuccessfulConnection = 0
  /\ reconnectAttempts = 0
  /\ scheduledReconnect = NoTimer
  /\ qrExpiryTimeout = NoTimer
  /\ whatsappState = InitialWhatsAppState
  /\ credentialStore \in {{}, {"creds"}}
  /\ orphans = << >>
  /\ tasks = EmptyBag
  /\ processedMessageIds = cache
  /\ messagesProcessed = 0
  /\ messageStore = << >>
  /\ upserts = EmptyBag
  /\ storeCalls = [m \in MessageIds |-> 0]
  /\ delivered = [m \in MessageIds |-> 0]
  /\ reconnectsScheduled = 0
  /\ systemState = NoSystemState
  /\ uncaught = {}

Init == InitWith(<< >>)

\* The process is restarted: the module state is what it is at load, the
\* stores keep what was persisted (and the counts of what was delivered and
\* handed to the store go on).
processRestart(s) ==
  [s EXCEPT !.connectionPhase = "idle", !.seamlessQrRegeneration = FALSE,
            !.whatsappSocket = NoSocket, !.authState = NULL,
            !.lastQrTime = 0, !.qrRetryCount = 0, !.lastConnectionAttempt = 0,
            !.connectionHealthy = FALSE, !.lastSuccessfulConnection = 0,
            !.reconnectAttempts = 0, !.scheduledReconnect = NoTimer,
            !.qrExpiryTimeout = NoTimer, !.whatsappState = InitialWhatsAppState,
            !.orphans = << >>, !.tasks = EmptyBag, !.processedMessageIds = << >>,
            !.messagesProcessed = 0, !.upserts = EmptyBag,
            !.reconnectsScheduled = 0, !.systemState = NoSystemState,
            !.uncaught = {}]

\* What a specification explores: at most L.tasks suspended handlers and
\* L.orphans unreferenced live sockets, the counters up to L.qr and
\* L.attempts, the pairing challenges L.payloads, the close reasons L.codes.
\* reconnectsScheduled is
\* history: the reconnects scheduled since the last open or user call,
\* counted up to L.history.
\* Sequential: one handler is suspended at a time, so starts never overlap.
Sequential == [tasks |-> 1, orphans |-> 0, qr |-> QrDepth, attempts |-> AttemptDepth,
               payloads |-> QrPayloads, history |-> 0, codes |-> StatusCodes]

\* Interleaved: handlers suspended at their awaits overlap.
Interleaved == [tasks |-> MaxTasks, orphans |-> MaxOrphans, qr |-> 1, attempts |-> 1,
                payloads |-> {"qrA"}, history |-> 0, codes |-> StatusCodes]

\* The run up to the ceiling of the pairing challenges.
QrCeiling == [tasks |-> 1, orphans |-> 0, qr |-> MAX_QR_RETRIES + 1, attempts |-> 1,
              payloads |-> {"qrA"}, history |-> 0,
              codes |-> {connectionLost, restartRequired}]

\* The run up to the ceiling of the reconnect attempts.
ReconnectCeiling == [tasks |-> 1, orphans |-> 0, qr |-> 1,
                     attempts |-> MAX_RECONNECT_ATTEMPTS + 1,
                     payloads |-> {"qrA"}, history |-> MAX_RECONNECT_ATTEMPTS + 1,
                     codes |-> {connectionLost, restartRequired}]

\* The message pipeline: sessions end by a lost connection.
Pipeline == [Sequential EXCEPT !.codes = {connectionLost}]

\* Pairing: one challenge, whose encoding may overlap the handlers that follow.
Pairing == [tasks |-> 2, orphans |-> 0, qr |-> 1, attempts |-> 1,
            payloads |-> {"qrA"}, history |-> 0, codes |-> {restartRequired}]

\* A step of the program that leads to state record s.
Step(L, s) ==
  /\ BagCardinality(s.tasks) <= L.tasks
  /\ Len(s.orphans) <= L.orphans
  /\ s.qrRetryCount <= L.qr
  /\ s.reconnectAttempts <= L.attempts
  /\ BagCardinality(s.upserts) <= MaxHandlers
  /\ \A m \in MessageIds : s.delivered[m] <= MaxDeliveries
  /\ Commit([s EXCEPT !.reconnectsScheduled = Min(@, L.history)])

Pending(task) == BagIn(task, tasks)

(* user calls *)
UserStart(L, force) ==
  /\ force \in BOOLEAN
  /\ Step(L, startWhatsApp([G EXCEPT !.reconnectsScheduled = 0], force))

UserStop(L) == Step(L, stopWhatsApp([G EXCEPT !.reconnectsScheduled = 0]))

UserLogout(L) == Step(L, logoutWhatsApp([G EXCEPT !.reconnectsScheduled = 0]))

(* resumed tasks *)
LogoutSocketReleased(L) == Pending(Task("logout")) /\ Step(L, logoutSocketReleased(G))

LogoutQueried(L) == Pending(Task("logoutClear")) /\ Step(L, logoutQueried(G))

LogoutCommitted(L, snapshot) ==
  /\ Pending(<< "logoutCommit", snapshot >>)
  /\ Step(L, logoutCommitted(G, snapshot))

LogoutClearFailed(L, task) ==
  /\ Pending(task)
  /\ task[1] \in {"logoutClear", "logoutCommit"}
  /\ Step(L, logoutClearFailed(G, task))

StartAuthLoaded(L) == Pending(Task("auth")) /\ Step(L, startAuthLoaded(G))

StartAuthFailed(L) == Pending(Task("auth")) /\ Step(L, startFailed(G, "auth"))

StartAuthReadFailed(L) == Pending(Task("auth")) /\ Step(L, startAuthReadFailed(G))

StartOpenSocket(L) == Pending(Task("version")) /\ Step(L, startOpenSocket(G))

QrEncoded(L, qr) == Pending(Encode(qr)) /\ Step(L, onQrEncoded(G, qr))

QrEncodeFailed(L, qr) == Pending(Encode(qr)) /\ Step(L, onQrEncodeFailed(G, qr))

ClearQueried(L) == Pending(Task("clear")) /\ Step(L, clearSessionQueried(G))

LoggedOutCleared(L, snapshot) ==
  /\ Pending(<< "commit", snapshot >>)
  /\ Step(L, onLoggedOutCleared(G, snapshot))

LoggedOutClearFailed(L, task) ==
  /\ Pending(task)
  /\ task[1] \in {"clear", "commit"}
  /\ Step(L, onLoggedOutClearFailed(G, task))

CredsWritten(L, ok) ==
  /\ Pending(Task("write"))
  /\ Step(L, writeData(Finish(G, Task("write")), ok))

ImmediateFires(L) == Pending(Task("immediate")) /\ Step(L, immediateCallback(G))

(* transport events *)
TransportQr(L, e, qr) ==
  /\ e \in Emitters(G) /\ ConnOf(G, e) = "connecting"
  /\ UserOf(G, e) = NULL
  /\ Step(L, onQr(G, qr))

TransportConnecting(L, e) ==
  /\ e \in Emitters(G) /\ ConnOf(G, e) = "connecting"
  /\ Step(L, onConnecting(G))

TransportOpen(L, e) ==
  /\ e \in Emitters(G) /\ ConnOf(G, e) = "connecting"
  /\ UserOf(G, e) # NULL
  /\ Step(L, onOpen(SetConn(G, e, "open")))

TransportClose(L, e, statusCode) ==
  /\ e \in Emitters(G)
  /\ Step(L, onClose(SetConn(G, e, "closed"), statusCode))

TransportCredsUpdate(L, e) ==
  /\ e \in Emitters(G)
  /\ authState # NULL
  /\ Step(L, Spawn(G, Task("write")))

(* messages *)
Batches == UNION {[1 .. n -> Messages] : n \in 1 .. MaxBatch}

\* The deliveries of message id m that msgs holds.
Deliveries(msgs, m) ==
  Cardinality({i \in DOMAIN msgs :
                 msgs[i].id = m /\ msgs[i].remoteJid # "status@broadcast"})

TransportUpsert(L, e, type, msgs) ==
  /\ e \in Emitters(G) /\ ConnOf(G, e) = "open"
  /\ Step(L, onMessagesUpsert(
                [G EXCEPT !.delivered =
                   [m \in MessageIds |-> @[m] + Deliveries(msgs, m)]],
                type, msgs))

GetAllResolved(L, f) ==
  /\ f.pc = "getAll"
  /\ Step(L, onGetAllResolved(G, f.msgs))

GetAllRejected(L, f) ==
  /\ f.pc = "getAll"
  /\ Step(L, onGetAllRejected(G, f.msgs))

StoreReturned(L, f, ok) ==
  /\ f.pc = "store"
  /\ Step(L, onStoreReturned(G, f.msgs, ok))

MessageEvent(L) ==
  \/ \E e \in 0 .. L.orphans, type \in UpsertTypes, msgs \in Batches :
       TransportUpsert(L, e, type, msgs)
  \/ \E f \in BagToSet(upserts) : GetAllResolved(L, f)
  \/ \E f \in BagToSet(upserts) : GetAllRejected(L, f)
  \/ \E f \in BagToSet(upserts), ok \in BOOLEAN : StoreReturned(L, f, ok)

(* timers and the clock *)
ReconnectTimerFires(L) ==
  /\ Due(scheduledReconnect, qrExpiryTimeout)
  /\ Step(L, scheduledReconnectCallback(elapse(G, scheduledReconnect.delay)))

QrExpiryTimerFires(L) ==
  /\ Due(qrExpiryTimeout, scheduledReconnect)
  /\ Step(L, qrExpiryCallback(elapse(G, qrExpiryTimeout.delay)))

\* Every step of the clock is longer than every timer delay, so an armed
\* timer fires before the clock moves.
TimePasses(L, d) ==
  /\ scheduledReconnect = NoTimer
  /\ qrExpiryTimeout = NoTimer
  /\ advance(G, d) # G
  /\ Step(L, advance(G, d))

UserCall(L) ==
  \/ \E force \in BOOLEAN : UserStart(L, force)
  \/ UserStop(L)

TaskResumes(L) ==
  \/ StartAuthLoaded(L)
  \/ StartAuthFailed(L)
  \/ StartOpenSocket(L)
  \/ \E qr \in L.payloads : QrEncoded(L, qr)
  \/ \E qr \in L.payloads : QrEncodeFailed(L, qr)
  \/ ImmediateFires(L)

TransportEvent(L) ==
  \/ \E e \in 0 .. L.orphans, qr \in L.payloads : TransportQr(L, e, qr)
  \/ \E e \in 0 .. L.orphans : TransportConnecting(L, e)
  \/ \E e \in 0 .. L.orphans : TransportOpen(L, e)
  \/ \E e \in 0 .. L.orphans, statusCode \in L.codes : TransportClose(L, e, statusCode)

ClearEvent(L) ==
  \/ ClearQueried(L)
  \/ \E snapshot \in {"", "creds"} : LoggedOutCleared(L, snapshot)
  \/ \E task \in BagToSet(tasks) : LoggedOutClearFailed(L, task)

CredsEvent(L) ==
  \/ StartAuthReadFailed(L)
  \/ \E e \in 0 .. L.orphans : TransportCredsUpdate(L, e)
  \/ \E ok \in BOOLEAN : CredsWritten(L, ok)

TimerFires(L) ==
  \/ ReconnectTimerFires(L)
  \/ QrExpiryTimerFires(L)

Clock(L) == \E d \in TickSteps : TimePasses(L, d)

Lifecycle(L) ==
  \/ UserCall(L)
  \/ TaskResumes(L)
  \/ TransportEvent(L)
  \/ TimerFires(L)
  \/ Clock(L)

\* The lifecycle, handlers running one after the other, with the clock.
Next ==
  \/ Lifecycle(Sequential)
  \/ ClearEvent(Sequential)
  \/ CredsEvent(Sequential)

Spec == Init /\ [][Next]_vars

\* The lifecycle with overlapping handlers, within one throttle window, when
\* neither the credential store nor the QR encoder fails.
NextRace ==
  \/ UserCall(Interleaved)
  \/ StartAuthLoaded(Interleaved)
  \/ StartOpenSocket(Interleaved)
  \/ \E qr \in Interleaved.payloads : QrEncoded(Interleaved, qr)
  \/ ImmediateFires(Interleaved)
  \/ TransportEvent(Interleaved)
  \/ ClearQueried(Interleaved)
  \/ \E snapshot \in {"", "creds"} : LoggedOutCleared(Interleaved, snapshot)
  \/ \E e \in 0 .. Interleaved.orphans : TransportCredsUpdate(Interleaved, e)
  \/ CredsWritten(Interleaved, TRUE)

SpecRace == Init /\ [][NextRace]_vars

\* A device that is not paired yet, and is not paired in the run.
InitUnpaired == Init /\ credentialStore = {}

\* The system state service on its own, from a first start of the process.
SpecService == InitUnpaired /\ [][NextService]_vars

\* C27: initialize reports wasOffline exactly when its read found a record
\* whose lastActiveTimestamp is more than 120 whole seconds old, and then
\* offlineDuration is that number of seconds; when there is no record or the
\* read failed it reports FALSE and 0.
InitializeReportsGap ==
  LET r == systemState.result
      seconds == r.read.lastActive \div 1000
      gap == ~r.readFailed /\ r.read.exists /\ r.read.lastActive >= 0
             /\ seconds > OFFLINE_THRESHOLD
  IN r.returned =>
       /\ r.wasOffline = gap
       /\ gap => r.offlineDuration = seconds
       /\ (r.readFailed \/ ~r.read.exists) => ~r.wasOffline /\ r.offlineDuration = 0

\* C28: at most one heartbeat timer is live; every tick sets lastActiveTimestamp
\* to the current time and writes the record; once shutdown() has returned on a
\* service that was initialized, no timer is live and the stored record has
\* isOnline false and the lastShutdownTimestamp of the shutdown.
HeartbeatTracked ==
  /\ [](systemState.timers <= 1)
  /\ [][HeartbeatTick =>
         \E call \in systemState.calls' :
           /\ call.op = "set" /\ call.by = "updateLastActive"
           /\ call.data.lastActive = 0]_vars
  /\ []((systemState.stopped /\ systemState.currentState.exists) =>
          /\ systemState.timers = 0
          /\ ~systemState.record.isOnline
          /\ systemState.record.lastShutdownTimestamp = "shutdown")

\* C29: when the write of a heartbeat tick fails, no error reaches a caller,
\* the interval timer stays live, and connectionPhase and the published
\* connection state are what they were.
HeartbeatFailureSwallowed ==
  [][\A call \in systemState.calls :
       (/\ call.by = "updateLastActive"
        /\ systemState' = saveSettled(systemState, call, FALSE))
         => /\ systemState'.rejected = systemState.rejected
            /\ systemState'.timers = systemState.timers
            /\ systemState'.heartbeatInterval = systemState.heartbeatInterval
            /\ connectionPhase' = connectionPhase
            /\ whatsappState' = whatsappState]_vars

\* A heartbeat write has failed and was logged; the timer is still live.
HeartbeatFailureLogged ==
  /\ systemState.logged
  /\ ~systemState.rejected
  /\ systemState.timers = 1

\* C30: no handler of a transport event (connection.update, creds.update,
\* messages.upsert) ends with an error that leaves it, whatever fails in the
\* message store, the credential store or the QR encoder while it runs.
NoHandlerErrorEscapes == uncaught = {}




NextQrCeiling ==
  \/ UserCall(QrCeiling)
  \/ TaskResumes(QrCeiling)
  \/ \E qr \in QrCeiling.payloads : TransportQr(QrCeiling, 0, qr)
  \/ TransportConnecting(QrCeiling, 0)
  \/ \E statusCode \in QrCeiling.codes : TransportClose(QrCeiling, 0, statusCode)
  \/ TimerFires(QrCeiling)
  \/ Clock(QrCeiling)

SpecQrCeiling == InitUnpaired /\ [][NextQrCeiling]_vars

\* A device that is paired.
InitPaired == Init /\ credentialStore = {"creds"}

NextReconnectCeiling ==
  \/ UserCall(ReconnectCeiling)
  \/ StartAuthLoaded(ReconnectCeiling)
  \/ StartAuthFailed(ReconnectCeiling)
  \/ StartOpenSocket(ReconnectCeiling)
  \/ TransportConnecting(ReconnectCeiling, 0)
  \/ TransportOpen(ReconnectCeiling, 0)
  \/ \E statusCode \in ReconnectCeiling.codes :
        TransportClose(ReconnectCeiling, 0, statusCode)
  \/ ReconnectTimerFires(ReconnectCeiling)
  \/ Clock(ReconnectCeiling)

SpecReconnectCeiling == InitPaired /\ [][NextReconnectCeiling]_vars

\* The message pipeline of a session that connects and disconnects.
Connects(L) ==
  \/ \E force \in BOOLEAN : UserStart(L, force)
  \/ StartAuthLoaded(L)
  \/ StartOpenSocket(L)
  \/ \E e \in 0 .. L.orphans : TransportOpen(L, e)
  \/ \E e \in 0 .. L.orphans, statusCode \in L.codes : TransportClose(L, e, statusCode)

LogoutEvent(L) ==
  \/ UserLogout(L)
  \/ LogoutSocketReleased(L)
  \/ LogoutQueried(L)
  \/ \E snapshot \in {"", "creds"} : LogoutCommitted(L, snapshot)
  \/ \E task \in BagToSet(tasks) : LogoutClearFailed(L, task)

\* The lifecycle with the user's logout.
NextLogout ==
  \/ Next
  \/ LogoutEvent(Sequential)

SpecLogout == Init /\ [][NextLogout]_vars

\* A device is paired: the challenge is encoded while the transport goes on.
NextPairing ==
  \/ UserCall(Pairing)
  \/ StartAuthLoaded(Pairing)
  \/ StartOpenSocket(Pairing)
  \/ QrEncoded(Pairing, "qrA")
  \/ ImmediateFires(Pairing)
  \/ TransportEvent(Pairing)
  \/ TransportCredsUpdate(Pairing, 0)
  \/ CredsWritten(Pairing, TRUE)
  \/ TimerFires(Pairing)
  \/ Clock(Pairing)

SpecPairing == InitUnpaired /\ [][NextPairing]_vars

----------------------------------------------------------------------------
(* The documents of the credential store, one per key *)

\* Strings are sequences of their parts.  The (category, id) pairs the
\* transport stores key material under, and the root key.
KeyPairs ==
  ({<< "sender-key" >>, << "sender-key", "-", "memory" >>, << "session" >>}
     \X {<< "x" >>, << "memory", "-", "x" >>, << "x", "/", "y" >>, << "x", "_", "y" >>})
  \cup {<< << "creds" >> >>}

\* `${category}-${id}`, or 'creds'
KeyOf(pair) == IF Len(pair) = 1 THEN pair[1] ELSE pair[1] \o << "-" >> \o pair[2]

\* `${sessionId}_${key}`.replace(/[\/\\]/g, '_')
getDocId(key) ==
  << "wa-task-manager", "_" >>
    \o [i \in DOMAIN key |-> IF key[i] \in {"/", "\\"} THEN "_" ELSE key[i]]

\* keys.set / saveCreds: the document of the key is set (value TRUE) or
\* deleted; a document is remembered with the pair it was written for.
keysSet(store, pair, value) ==
  LET others == {d \in store : d.doc # getDocId(KeyOf(pair))} IN
  IF value THEN others \cup {[doc |-> getDocId(KeyOf(pair)), pair |-> pair]} ELSE others

\* keys.get / the creds load: the pairs whose value is read for the pair.
keysGet(store, pair) == {d.pair : d \in {e \in store : e.doc = getDocId(KeyOf(pair))}}

KeysSet(pair, value) == Commit([G EXCEPT !.credentialStore = keysSet(@, pair, value)])

SpecKeys ==
  InitUnpaired /\ [][\E pair \in KeyPairs, value \in BOOLEAN : KeysSet(pair, value)]_vars

NextMsg ==
  \/ Connects(Pipeline)
  \/ MessageEvent(Pipeline)

SpecMsg == Init /\ [][NextMsg]_vars

----------------------------------------------------------------------------
(* Single-flight *)

\* C1: at every instant at most one transport session exists (a socket that
\* still has its event handlers attached and has not been ended), whatever
\* the interleaving of start calls, timer callbacks and transport events.
SingleFlight == LiveSessions(G) <= 1

----------------------------------------------------------------------------
(* Logged out *)

\* The logged-out close handlers that wait for clearSession.
Clearing ==
  CopiesIn(Task("clear"), tasks) + CopiesIn(<< "commit", "" >>, tasks)
    + CopiesIn(<< "commit", "creds" >>, tasks)

\* C4: when the handler of a close with reason logged-out is done and its
\* clearSession met no error, all the persisted credentials of the session
\* are deleted, connectionPhase is idle, both timers are cancelled, the
\* published state carries the error 'Logged out from WhatsApp' with user and
\* qrCode null; a credential load that finds the store empty creates fresh
\* identity material.
LoggedOutClears ==
  [][/\ (\E snapshot \in {"", "creds"} : LoggedOutCleared(Interleaved, snapshot)) =>
          /\ credentialStore' = {}
          /\ connectionPhase' = "idle"
          /\ scheduledReconnect' = NoTimer
          /\ qrExpiryTimeout' = NoTimer
          /\ whatsappState'.error = "Logged out from WhatsApp"
          /\ whatsappState'.user = NULL
          /\ whatsappState'.qrCode = NULL
     /\ (authState' # authState /\ credentialStore = {}) => authState' = "fresh"]_vars

----------------------------------------------------------------------------
(* Pairing challenges *)

QrCeilingError == "QR code expired. Please try connecting again."

\* A challenge that arrives now is within the spacing of the last accepted one.
WithinSpacing ==
  /\ lastQrTime # 0
  /\ Now - lastQrTime < MIN_QR_REGENERATION_DELAY
  /\ qrRetryCount > 0

QrSpacingSuppresses ==
  [][\A qr \in QrPayloads :
       (TransportQr(Sequential, 0, qr) /\ WithinSpacing) =>
         UNCHANGED << whatsappState, qrRetryCount, lastQrTime, connectionPhase,
                      qrExpiryTimeout, tasks >>]_vars

\* C6 witness: challenge #1 is published and current, and the session can
\* deliver challenge #2 within the spacing.
QrWithinSpacing ==
  /\ WithinSpacing
  /\ whatsappSocket.conn = "connecting"
  /\ connectionPhase = "qr_ready"
  /\ whatsappState.status = "qr_ready"
  /\ whatsappState.qrCode = QRCodeToDataURL("qrA")
  /\ qrExpiryTimeout # NoTimer

----------------------------------------------------------------------------
(* Reconnecting *)

ReconnectCeilingError == "Maximum reconnection attempts reached"

\* C7: with no open event and no user call in between, at most
\* MAX_RECONNECT_ATTEMPTS reconnects are scheduled, whatever close reasons the
\* transport emits.
BoundedReconnects == reconnectsScheduled <= MAX_RECONNECT_ATTEMPTS

\* C11: the steady-state delay never exceeds the cap and does not decrease
\* when reconnectAttempts grows by one, for every attempt count the run
\* reaches (0 .. MAX_RECONNECT_ATTEMPTS).
BackoffMonotonicity ==
  /\ reconnectAttempts \in 0 .. MAX_RECONNECT_ATTEMPTS
  /\ getReconnectDelay(G) >= RECONNECT_BACKOFF_BASE
  /\ getReconnectDelay(G) <= maxDelay
  /\ getReconnectDelay([G EXCEPT !.reconnectAttempts = @ + 1]) >= getReconnectDelay(G)

\* C11 witness: the ninth failure in a row is scheduled with the capped delay.
BackoffCapped ==
  /\ reconnectAttempts = MAX_RECONNECT_ATTEMPTS - 1
  /\ connectionPhase = "reconnecting"
  /\ scheduledReconnect = [delay |-> maxDelay]

\* A call of startWhatsApp went on to its credential load in this step.
StartProceeds == CopiesIn(Task("auth"), tasks') > CopiesIn(Task("auth"), tasks)

\* C12: whenever startWhatsApp proceeds to open a session, forced or not and
\* whoever called it, no scheduled reconnect is pending afterwards.
StartCancelsReconnect ==
  [][StartProceeds => scheduledReconnect' = NoTimer]_vars

\* The exhausted state: idle with the error of a ceiling.
Exhausted ==
  /\ connectionPhase = "idle"
  /\ whatsappState.error \in
       {QrCeilingError, ReconnectCeilingError,
        "QR code expired. Please click Connect to try again.",
        "QR code expired too many times. Please click Connect to try again."}

\* C8: once exhausted, no transport event and no timer callback moves the
\* machine out: connectionPhase stays idle with the error, no timer is
\* pending and no transport session is opened.
ExhaustedIsTerminal ==
  [][(Exhausted /\ (TransportEvent(QrCeiling) \/ TimerFires(QrCeiling))) =>
       /\ Exhausted'
       /\ scheduledReconnect' = NoTimer
       /\ qrExpiryTimeout' = NoTimer
       /\ tasks' = tasks]_vars

\* C9: a close with reason connection-lost or connection-closed while
\* connected moves connectionPhase to reconnecting and schedules the
\* reconnect with delay RECONNECT_BACKOFF_BASE.
ClosedWhileConnected ==
  [][\A statusCode \in {connectionLost, connectionClosed} :
       (/\ TransportClose(Sequential, 0, statusCode)
        /\ whatsappSocket.conn = "open"
        /\ connectionPhase = "connected") =>
         /\ connectionPhase' = "reconnecting"
         /\ scheduledReconnect' = [delay |-> RECONNECT_BACKOFF_BASE]]_vars

----------------------------------------------------------------------------
(* Stop *)

\* The program state that stopWhatsApp leaves behind.
TornDown ==
  /\ scheduledReconnect = NoTimer
  /\ qrExpiryTimeout = NoTimer
  /\ whatsappSocket = NoSocket
  /\ connectionPhase = "idle"
  /\ reconnectAttempts = 0
  /\ qrRetryCount = 0
  /\ whatsappState.status = "disconnected"
  /\ whatsappState.qrCode = NULL
  /\ whatsappState.user = NULL

\* C13: when stopWhatsApp has run, no timer is pending, the socket reference
\* is null (its listeners removed, the socket ended), connectionPhase is idle,
\* reconnectAttempts and qrRetryCount are 0 and the published state is
\* disconnected with qrCode and user null.
StopTearsDown == [][UserStop(Sequential) => TornDown']_vars

\* C13 witness: a session that was connected has been stopped.
StoppedAfterSession ==
  /\ TornDown
  /\ lastSuccessfulConnection # 0
  /\ whatsappState.error = NULL
  /\ ~connectionHealthy

\* C14: from stopWhatsApp until the next start call nothing that was in
\* flight takes effect: no transport session is opened, no timer becomes
\* pending, no QR is published and connectionPhase stays idle.
StopDiscardsInFlight ==
  [][(TornDown /\ whatsappState.error = NULL
        /\ ~(\E force \in BOOLEAN : UserStart(Sequential, force))) =>
       /\ whatsappSocket' = NoSocket
       /\ scheduledReconnect' = NoTimer
       /\ qrExpiryTimeout' = NoTimer
       /\ whatsappState'.qrCode = NULL
       /\ connectionPhase' = "idle"]_vars

\* C15: stopWhatsApp called while connectionPhase is idle leaves the
\* published connection state as it was.
IdempotentStop ==
  [][(UserStop(Sequential) /\ connectionPhase = "idle") =>
       whatsappState' = whatsappState]_vars

\* C16: stopWhatsApp leaves every persisted credential record as it is and
\* starts no write, remove or clear on the credential store; the loaded
\* auth state stays as well, and a credential load reads what is stored.
StopPreservesCredentials ==
  [][/\ UserStop(Sequential) =>
          UNCHANGED << credentialStore, tasks, authState >>
     /\ StartAuthLoaded(Sequential) =>
          authState' = IF "creds" \in credentialStore THEN "stored" ELSE "fresh"]_vars

\* C16 witness: a session that ran on stored credentials has been stopped
\* and the credentials are still stored.
StoppedWithCredentials ==
  /\ TornDown
  /\ whatsappState.error = NULL
  /\ authState = "stored"
  /\ credentialStore = {"creds"}
  /\ lastConnectionAttempt # 0
  /\ tasks = EmptyBag

----------------------------------------------------------------------------
(* Logout *)

\* The calls of logoutWhatsApp that have not returned.
LoggingOut ==
  CopiesIn(Task("logout"), tasks) + CopiesIn(Task("logoutClear"), tasks)
    + CopiesIn(<< "logoutCommit", "" >>, tasks)
    + CopiesIn(<< "logoutCommit", "creds" >>, tasks)

\* A call of logoutWhatsApp returns in this step.
LogoutReturns ==
  \/ UserLogout(Sequential) /\ LoggingOut' = LoggingOut
  \/ LoggingOut' < LoggingOut

\* C17: when logoutWhatsApp has returned, no credential record of the
\* session is left in the store, whatever was stored before and whether or
\* not a socket or an auth state existed, and phase, counters, timers and
\* published state are as after stopWhatsApp.
LogoutClearsCredentials ==
  [][LogoutReturns =>
       /\ credentialStore' = {}
       /\ TornDown'
       /\ whatsappState'.error = NULL]_vars

----------------------------------------------------------------------------
(* Message deduplication *)

\* C2: a message id is marked processed before any asynchronous work for it
\* begins, so of two deliveries of one id handled concurrently at most one
\* passes the duplicate check: every id reaches storeMessage / storeOwnMessage
\* at most once.
StoredAtMostOnce == \A m \in MessageIds : storeCalls[m] <= 1

\* The handlers that passed the in-memory check for m and wait for getAll.
PassedCheck(m) ==
  LET waiting == {f \in BagToSet(upserts) : f.pc = "getAll" /\ Head(f.msgs).id = m}
  IN BagCardinality([f \in waiting |-> CopiesIn(f, upserts)])

\* C3: while m is in processedMessageIds, no inbound message with id m passes
\* the duplicate check: none is newly counted in messagesProcessed or handed
\* to storeMessage / storeOwnMessage beyond those already past the check.
DedupIdempotence ==
  [][\A m \in MessageIds :
       m \in Range(processedMessageIds) =>
         /\ PassedCheck(m)' + storeCalls'[m] <= PassedCheck(m) + storeCalls[m]
         /\ (PassedCheck(m) = 0 =>
               /\ storeCalls'[m] = storeCalls[m]
               /\ (\A o \in MessageIds \ {m} : storeCalls'[o] = storeCalls[o])
                     => messagesProcessed' = messagesProcessed)]_vars

\* C3 witness: m1 was delivered twice, the first delivery was processed (its
\* store call failed, so the database holds no row of it), the second skipped.
DedupSkipped ==
  /\ "m1" \in Range(processedMessageIds)
  /\ delivered["m1"] = 2
  /\ storeCalls["m1"] = 1
  /\ messagesProcessed = 1
  /\ messageStore = << >>
  /\ upserts = EmptyBag

----------------------------------------------------------------------------
(* Connected *)

\* C18: whenever connectionPhase is connected, the published state has a
\* user identity and no QR code.
ConnectedHasUser ==
  connectionPhase = "connected" =>
    /\ whatsappState.user # NULL
    /\ whatsappState.qrCode = NULL

\* C19: whenever connectionPhase is qr_ready, a QR challenge is published
\* and has not expired: it was issued by the socket that is still referenced
\* and its expiry timer is still armed.
QrReadyHasQr ==
  connectionPhase = "qr_ready" =>
    /\ whatsappState.qrCode # NULL
    /\ whatsappSocket # NoSocket
    /\ qrExpiryTimeout # NoTimer

\* An open event of the referenced socket is handled in this step.
OpenHandled == TransportOpen(Pairing, 0)

\* C20: handling an open event cancels the scheduled reconnect and the QR
\* expiry timer and resets qrRetryCount and lastQrTime, and whenever
\* connectionPhase is connected neither timer is pending.
OpenCancelsTimers ==
  /\ [][OpenHandled =>
         /\ scheduledReconnect' = NoTimer
         /\ qrExpiryTimeout' = NoTimer
         /\ qrRetryCount' = 0
         /\ lastQrTime' = 0]_vars
  /\ [](connectionPhase = "connected" =>
         /\ scheduledReconnect = NoTimer
         /\ qrExpiryTimeout = NoTimer)

----------------------------------------------------------------------------
(* QR expiry and the restarts of the pairing phase *)

\* The published status and connectionPhase are both qr_ready.
InPairing == whatsappState.status = "qr_ready" /\ connectionPhase = "qr_ready"

\* The referenced session was started after the last accepted challenge had
\* run out.
FreshSession ==
  /\ lastQrTime # 0
  /\ Now - lastQrTime >= QR_EXPIRY_DELAY
  /\ lastConnectionAttempt # 0
  /\ Now - lastConnectionAttempt < MIN_RECONNECT_DELAY
  /\ qrExpiryTimeout = NoTimer

\* The referenced socket is connecting with credentials that are not
\* registered: its next connection.update carries a challenge.
AwaitsChallenge ==
  /\ whatsappSocket.conn = "connecting"
  /\ whatsappSocket.user = NULL
  /\ tasks = EmptyBag

\* C21: when the expiry timer fires in the pairing phase below the QR
\* ceiling, the old socket is cleaned up and a new session is started, and
\* the challenge that session issues is accepted as the current QR; when a
\* connecting or open event has intervened, the expiry changes nothing.
QrExpiryRegenerates ==
  /\ [][(QrExpiryTimerFires(Sequential) /\ InPairing
           /\ qrRetryCount < MAX_QR_RETRIES) =>
          StartProceeds /\ whatsappSocket' = NoSocket]_vars
  /\ [][(QrExpiryTimerFires(Sequential)
           /\ connectionPhase \in {"authenticating", "connected"}) =>
          /\ connectionPhase' = connectionPhase
          /\ whatsappSocket' = whatsappSocket
          /\ whatsappState' = whatsappState
          /\ tasks' = tasks]_vars
  /\ []((FreshSession /\ AwaitsChallenge /\ qrRetryCount < MAX_QR_RETRIES) =>
          \A qr \in QrPayloads : BagIn(Encode(qr), onQr(G, qr).tasks))

\* The referenced session was started by a restart of the pairing phase: the
\* published status was kept at qr_ready while the session is set up.
SeamlessSession ==
  /\ whatsappState.status = "qr_ready"
  /\ connectionPhase = "starting"
  /\ AwaitsChallenge

\* C22: a close with reason restart-required or 428 in the pairing phase
\* restarts at once (no timer, no backoff), the restart is never skipped,
\* and the challenge of the restarted session is accepted as the current QR.
PairingFastRetry ==
  /\ [][\A statusCode \in {restartRequired, connectionClosed} :
          (TransportClose(Sequential, 0, statusCode)
            /\ (whatsappState.status = "qr_ready" \/ connectionPhase = "qr_ready")) =>
            /\ Pending(Task("immediate"))'
            /\ scheduledReconnect' = scheduledReconnect]_vars
  /\ [][ImmediateFires(Sequential) => StartProceeds]_vars
  /\ []((SeamlessSession /\ qrRetryCount < MAX_QR_RETRIES) =>
          \A qr \in QrPayloads : BagIn(Encode(qr), onQr(G, qr).tasks))

----------------------------------------------------------------------------
(* Start while starting *)

\* C23: startWhatsApp(false) called while connectionPhase is starting
\* changes nothing: no session is opened or closed, no timer is armed or
\* cancelled, and the counters, lastConnectionAttempt and the published
\* state stay as they are.
StartWhileStartingIsNoOp ==
  connectionPhase = "starting" => startWhatsApp(G, FALSE) = G

\* A start is in progress and the throttle window of the attempt is over.
StartingPastThrottle ==
  /\ connectionPhase = "starting"
  /\ Pending(Task("auth"))
  /\ lastConnectionAttempt # 0
  /\ Now - lastConnectionAttempt >= MIN_RECONNECT_DELAY

----------------------------------------------------------------------------
(* Credentials *)

\* The credential load of startWhatsApp completes in this step.
CredsLoaded == Pending(Task("auth")) /\ Pending(Task("version"))'

\* C24: the identity is created anew only when no credentials are stored:
\* whenever a creds record is in the store, the credential load of
\* startWhatsApp yields that record.
StoredCredsAreUsed ==
  [][(CredsLoaded /\ "creds" \in credentialStore) => authState' = "stored"]_vars

\* A saveCreds call resolves in this step: the creds.update handler is done
\* and the mutation counts as taken over.
SaveCredsResolves == CopiesIn(Task("write"), tasks') < CopiesIn(Task("write"), tasks)

\* C25: a credential mutation is acknowledged only once it is persisted: when
\* saveCreds resolves, the creds record is in the store.
PersistedBeforeAcknowledged ==
  [][SaveCredsResolves => "creds" \in credentialStore']_vars

\* C26: the keys do not collide: what is read for a (category, id) pair, or
\* for the root key, is what was written for that very pair.
KeysCollisionFree ==
  \A pair \in KeyPairs : keysGet(credentialStore, pair) \subseteq {pair}

----------------------------------------------------------------------------
(* Failures and the published state *)

\* C31: a failure that makes connectionPhase idle publishes an error in the
\* same step: every step other than a user call that takes connectionPhase to
\* idle leaves the published error set, and so do the QR ceiling of the qr
\* handler and the reconnect ceiling of scheduleReconnect wherever they are
\* met.
FailureIsPublished ==
  /\ [][(connectionPhase' = "idle" /\ connectionPhase # "idle"
           /\ ~UserCall(Sequential))
          => whatsappState'.error # NULL]_vars
  /\ [](\A qr \in QrPayloads :
          LET s == onQr([G EXCEPT !.qrRetryCount = MAX_QR_RETRIES], qr)
          IN (s.connectionPhase = "idle" /\ connectionPhase # "idle")
               => s.whatsappState.error # NULL)
  /\ [](\A delay \in {MIN_QR_RECONNECT_DELAY, RECONNECT_BACKOFF_BASE} :
          LET s == scheduleReconnect(
                     [G EXCEPT !.reconnectAttempts = MAX_RECONNECT_ATTEMPTS], delay)
          IN s.connectionPhase = "idle" /\ s.whatsappState.error # NULL)

\* A start has failed: idle, with the error of the catch block published.
StartFailurePublished ==
  /\ connectionPhase = "idle"
  /\ whatsappState.status = "error"
  /\ whatsappState.error = "start failed"

----------------------------------------------------------------------------
(* Cold start *)

\* The message pipeline of a process that may be restarted.
SpecRestart ==
  Init /\ [][\/ Connects(Pipeline)
             \/ MessageEvent(Pipeline)
             \/ Commit(processRestart(G))]_vars

\* C33: a message that passed the in-memory check and is found among the
\* newest 200 persisted rows is a duplicate: nothing is stored, no store call
\* is made, the count stays, its id is in the cache, and the next delivery of
\* the id is skipped on the in-memory check.
ColdStartDedup ==
  \A f \in BagToSet(upserts) :
    LET s == onGetAllResolved(G, f.msgs)
        msg == Head(f.msgs)
        persisted == \E i \in DOMAIN messageStore :
                       /\ i > Len(messageStore) - GET_ALL_LIMIT
                       /\ messageStore[i].messageKey = msg.id
    IN (f.pc = "getAll" /\ persisted) =>
         /\ s.messageStore = messageStore
         /\ s.storeCalls = storeCalls
         /\ s.messagesProcessed = messagesProcessed
         /\ s.whatsappState = whatsappState
         /\ has(s.processedMessageIds, msg.id)
         /\ onMessagesUpsert(s, "notify", << msg >>).upserts = s.upserts

\* After a restart a persisted message was delivered again and skipped: its
\* id is in the cache although no message was counted.
SkippedAfterRestart ==
  /\ messagesProcessed = 0
  /\ has(processedMessageIds, "m1")
  /\ upserts = EmptyBag
  /\ \E i \in DOMAIN messageStore : messageStore[i].messageKey = "m1"

----------------------------------------------------------------------------
(* The dedup cache at its capacity *)

\* The keys a message may carry next: the id that follows the newest one, and
\* ids the cache holds at its ends and on both sides of the eviction boundary.
Offered(cache) ==
  LET n == Len(cache)
      held == {i \in {1, EVICTED_ENTRIES, EVICTED_ENTRIES + 1, n} : 1 <= i /\ i <= n}
      next == IF n = 0 THEN 1 ELSE cache[n] + 1
  IN {cache[i] : i \in held} \cup {k \in {next} : k <= MaxKey}

\* The cache on its own, empty or holding the ids 1 .. MinKeys: ids are added
\* one after the other, as the messages.upsert handler does for every message
\* it lets pass.
SpecCache ==
  /\ \E n \in {0, MinKeys} : InitWith([i \in 1 .. n |-> i]) /\ credentialStore = {}
  /\ [][\E messageKey \in Offered(processedMessageIds) :
          Commit(addToProcessedCache(G, messageKey))]_vars

\* C32: the cache never holds more than MAX_PROCESSED_CACHE ids; an id added
\* to a cache of MAX_PROCESSED_CACHE ids evicts the EVICTED_ENTRIES oldest
\* ones (none of them stays unless it is the id added), keeps every newer id
\* in its order, and is in the cache afterwards.
CacheEvictsOldestBatch ==
  /\ Len(processedMessageIds) <= MAX_PROCESSED_CACHE
  /\ Len(processedMessageIds) = MAX_PROCESSED_CACHE =>
       \A messageKey \in Offered(processedMessageIds) :
         LET after == addToProcessedCache(G, messageKey).processedMessageIds
             kept == MAX_PROCESSED_CACHE - EVICTED_ENTRIES
         IN /\ \A i \in 1 .. EVICTED_ENTRIES :
                 has(after, processedMessageIds[i]) => processedMessageIds[i] = messageKey
            /\ SubSeq(after, 1, kept)
                 = SubSeq(processedMessageIds, EVICTED_ENTRIES + 1, MAX_PROCESSED_CACHE)
            /\ has(after, messageKey)
            /\ Len(after) <= kept + 1

\* An id was added to the full cache: the oldest batch is gone.
CacheEvicted ==
  /\ Len(processedMessageIds) = MAX_PROCESSED_CACHE - EVICTED_ENTRIES + 1
  /\ processedMessageIds[1] = EVICTED_ENTRIES + 1
  /\ processedMessageIds[Len(processedMessageIds)] = MAX_PROCESSED_CACHE + 1

----------------------------------------------------------------------------
(* The start throttle *)

\* C34: a call of startWhatsApp(false) made less than the minimum delay after
\* the previous attempt (MIN_QR_RECONNECT_DELAY when the status or the phase
\* is qr_ready, MIN_RECONNECT_DELAY otherwise) changes nothing; a call of
\* startWhatsApp(true) is never held back: it begins a new attempt
\* (connectionPhase starting, lastConnectionAttempt now, the credential load
\* under way).
StartThrottle ==
  LET isQrPhase == whatsappState.status = "qr_ready" \/ connectionPhase = "qr_ready"
      minDelay == IF isQrPhase THEN MIN_QR_RECONNECT_DELAY ELSE MIN_RECONNECT_DELAY
      tooSoon == lastConnectionAttempt # 0 /\ Now - lastConnectionAttempt < minDelay
      forced == startWhatsApp(G, TRUE)
  IN /\ tooSoon => startWhatsApp(G, FALSE) = G
     /\ forced.connectionPhase = "starting"
     /\ forced.lastConnectionAttempt = Now
     /\ CopiesIn(Task("auth"), forced.tasks) = CopiesIn(Task("auth"), tasks) + 1

\* A challenge is shown and the last attempt is less than
\* MIN_QR_RECONNECT_DELAY old.
ThrottledInQrPhase ==
  /\ connectionPhase = "qr_ready"
  /\ whatsappState.status = "qr_ready"
  /\ lastConnectionAttempt # 0
  /\ Now - lastConnectionAttempt < MIN_QR_RECONNECT_DELAY

----------------------------------------------------------------------------
(* Reconnecting *)

\* C35: while connectionPhase is reconnecting with a reconnect scheduled, the
\* firing of the timer when the published status is not connected begins a
\* new start attempt: the call of startWhatsApp goes on to its credential
\* load, so connectionPhase leaves reconnecting.
ReconnectTimerStarts ==
  [][(/\ connectionPhase = "reconnecting"
      /\ scheduledReconnect # NoTimer
      /\ whatsappState.status # "connected"
      /\ ReconnectTimerFires(Sequential))
       => (StartProceeds /\ connectionPhase' # "reconnecting")]_vars

----------------------------------------------------------------------------
(* Status and phase *)

\* C36: the published status is connected exactly when connectionPhase is
\* connected.
ConnectedAgrees ==
  (whatsappState.status = "connected") <=> (connectionPhase = "connected")

----------------------------------------------------------------------------
(* Liveness tracking and the identity of the session *)

\* Sessions of a process one after the other: a device that was paired as
\* one of two identities opens its session, the user logs out, the system
\* state service runs.
SpecTracking ==
  Init /\ [][\/ \E user \in {"me", "other"} :
                  /\ whatsappSocket = NoSocket
                  /\ tasks = EmptyBag
                  /\ Step(Sequential,
                          onOpenTracked([G EXCEPT !.authState = "stored",
                                                  !.whatsappSocket =
                                                    [conn |-> "open", user |-> user]]))
             \/ LogoutEvent(Sequential)
             \/ ServiceRuns]_vars

\* C37: the liveness record the service keeps is the one of the identity of
\* the connected session: after a logout and the opening of a session of
\* another identity, tracking is initialised for that identity.
TrackingFollowsIdentity ==
  connectionPhase = "connected" => systemState.userId = whatsappState.user

----------------------------------------------------------------------------
(* The credential backend *)

\* useFirestoreAuthState probes the store on every call: the auth state it
\* returns reads, writes and clears Firestore documents when the probe
\* succeeds, the files of the local session directory when it fails.
authBackend(probeOk) == IF probeOk THEN "firestore" ELSE "local"

\* The backends on their own, no read, write or delete failing:
\* credentialStore holds the records << backend, key >> that are persisted,
\* authState is the backend of the auth state of the last start.  A start
\* probes, creds.update saves the creds, keys.set writes or removes a key,
\* logoutWhatsApp clears the session of the auth state it holds.
SpecBackend ==
  InitUnpaired
    /\ [][\/ \E probeOk \in BOOLEAN :
               Commit([G EXCEPT !.connectionPhase = "starting",
                                !.authState = authBackend(probeOk)])
          \/ /\ authState # NULL
             /\ \E key \in {"creds", "session-x", "sender-key-y"}, value \in BOOLEAN :
                  /\ key = "creds" => value
                  /\ Commit([G EXCEPT !.credentialStore =
                               IF value THEN @ \cup {<< authState, key >>}
                               ELSE @ \ {<< authState, key >>}])
          \/ /\ authState # NULL
             /\ Commit([G EXCEPT !.connectionPhase = "idle",
                                 !.credentialStore =
                                   {doc \in @ : doc[1] # authState}])]_vars

\* C38: every start and the logout work on the same backend, whatever the
\* probes answer: a record that is persisted is in the backend the next start
\* reads, and after a logout no record is left for a later start to load.
BackendIsFixed ==
  /\ \A doc \in credentialStore :
       \A probeOk \in BOOLEAN : << authBackend(probeOk), doc[2] >> \in credentialStore
  /\ (connectionPhase = "idle" /\ authState # NULL) => credentialStore = {}

----------------------------------------------------------------------------
(* A user start after a ceiling *)

\* POST /start: answered at once while the status is connected, initializing
\* or qr_ready; otherwise startWhatsAppFn() is called, without an argument.
postStart(s) ==
  IF s.whatsappState.status \in {"connected", "initializing", "qr_ready"}
  THEN s
  ELSE startWhatsApp(s, FALSE)

\* C39: a start requested through POST /start in the exhausted state begins
\* an attempt in which challenges are accepted again: once the start throttle
\* and the spacing of challenges have run out, the session the request opens
\* has its challenge taken and encoded, whatever the counters were.
UserStartRecovers ==
  (/\ Exhausted
   /\ tasks = EmptyBag
   /\ credentialStore = {}
   /\ lastConnectionAttempt = 0 \/ Now - lastConnectionAttempt >= MIN_RECONNECT_DELAY
   /\ lastQrTime = 0 \/ Now - lastQrTime >= MIN_QR_REGENERATION_DELAY)
    => LET s == startOpenSocket(startAuthLoaded(postStart(G)))
       IN /\ s.connectionPhase = "starting"
          /\ \A qr \in QrPayloads : BagIn(Encode(qr), onQr(s, qr).tasks)

====
